---- MODULE Spec2Model ----
(***************************************************************************)
(* Model of internal/builders/docker/pkg/builder.go (Kong/slsa-generator). *)
(*                                                                         *)
(* Three specifications share the module:                                  *)
(*   SpecLog  one external command run the way runDockerRun, cloneGitRepo  *)
(*            and checkoutGitCommit run it: cmd.Start, saveToTempFile (two *)
(*            drain goroutines, one coordinating goroutine, the caller),   *)
(*            cmd.Wait.                                                    *)
(*   Spec     the sequential build-state machine: GitClient.Fetch,         *)
(*            Builder.SetUpBuildState, DockerBuild.BuildArtifacts and the  *)
(*            cleanup calls, over a small file system.                     *)
(*   SpecURI  newGitClient's normalisation of the source repository URI.   *)
(***************************************************************************)
EXTENDS Integers, Sequences, FiniteSets, TLC

\* ----------------------------------------------------------------- bounds

\* Most lines the child process writes to one of its streams.
MaxLines == 2
\* Lines an OS pipe holds before the writer blocks.
PipeCap == 1
\* Most operations (Fetch, SetUpBuildState, BuildArtifacts, cleanup) in one run.
MaxOps == 3
\* Most files matching the artifact pattern that one directory holds.
MaxArts == 2

VARIABLES
    verbose,       \* saveToTempFile's verbose argument
    src,           \* src[s]: every line the child writes to stream s, in order
    out,           \* out[s]: the lines the child has still to write to stream s
    pipe,          \* pipe[s]: lines written and not yet read
    childPc,       \* "notStarted" | "running" | "exited" | "reaped"
    callerPc,      \* position of the function that runs the command
    mpc,           \* position of saveToTempFile's own flow
    cpc,           \* position of the coordinating goroutine
    dpc,           \* dpc[s]: position of the goroutine draining reader s
    wg,            \* the WaitGroup's counter
    allBytes,      \* allBytes[s]: the lines saveOneTempFile has accumulated
    cur,           \* cur[s]: the line about to be sent on printChannel
    scanEnd,       \* scanEnd[s]: "none" | "eof" | "err": why scanner.Scan stopped
    fileOf,        \* fileOf[s]: the temp file created for reader s (0: none)
    res,           \* res[s]: the tempFileResult reader s is about to send
    disk,          \* disk[f]: content of temp file f, <<"absent">> when not created
    nextFile,      \* names os.CreateTemp has handed out so far
    printClosed,   \* close(printChannel) has run
    console,       \* the lines printed by the caller's loop
    fileChannel,   \* the buffered result channel
    fileClosed,    \* close(fileChannel) has run
    files,         \* the names collected by saveToTempFile
    saveErr,       \* the error saveToTempFile returns ("none": nil)
    waitErr        \* the error cmd.Wait returns ("unset" before it ran)

lvars == <<verbose, src, out, pipe, childPc, callerPc, mpc, cpc, dpc, wg,
           allBytes, cur, scanEnd, fileOf, res, disk, nextFile, printClosed,
           console, fileChannel, fileClosed, files, saveErr, waitErr>>

VARIABLES
    cfg,           \* the DockerBuildConfig fields the GitClient and Builder read
    cwd,           \* the process's current working directory
    fs,            \* fs[d]: directory d: exists, HEAD, the source ref, artifacts
    tmpCount,      \* temp directories os.MkdirTemp has created
    diskLogs,      \* the temp log files on disk that the GitClient recorded
    strayLogs,     \* temp log files exist on disk that nothing recorded
    checkoutInfo,  \* the GitClient's RepoCheckoutInfo (one object, shared by pointer)
    logFiles,      \* GitClient.logFiles
    errFiles,      \* GitClient.errFiles
    db,            \* the DockerBuild SetUpBuildState returned last (NoBuild: none)
    dockerRuns,    \* container invocations so far
    fetched,       \* some Fetch has succeeded
    ops,           \* operations so far
    failed,        \* an operation has returned an error
    last           \* the last operation: its name, error, commands and result

bvars == <<cfg, cwd, fs, tmpCount, diskLogs, strayLogs, checkoutInfo, logFiles,
           errFiles, db, dockerRuns, fetched, ops, failed, last>>

\* ---- state of the construction of a GitClient (newGitClient)
VARIABLES
    config,        \* the DockerBuildConfig handed to newGitClient
    client         \* what newGitClient returned, [built |-> FALSE] before the call

uvars == <<config, client>>

\* ---- state of a provenance round trip (CreateBuildDefinition, ParseProvenance,
\* ---- ToDockerBuildConfig)
VARIABLES
    provDb,        \* the DockerBuild whose build definition is recorded
    provBytes,     \* the provenance statement as the parser receives it
    provTampered,  \* the statement is not the one serialized from provDb
    provStmt,      \* what ParseProvenance returned
    provForce,     \* the forceCheckout argument of ToDockerBuildConfig
    provCfg,       \* what ToDockerBuildConfig returned
    provPc         \* "start" | "serialized" | "parsed" | "rebuilt" | "idle"

pvars == <<provDb, provBytes, provTampered, provStmt, provForce, provCfg, provPc>>

vars == <<lvars, bvars, uvars, pvars>>

\* ------------------------------------------- the parts a specification rests

\* The readers passed to saveToTempFile: 1 is stdout, 2 is stderr.
Readers == {1, 2}
NumReaders == Cardinality(Readers)
FileIds == 1..NumReaders
NoFile == <<"absent">>

\* Range(q): the elements of a sequence.
Range(q) == {q[i] : i \in 1..Len(q)}

\* nil error; an error is the chain of its wrapped messages, outermost first.
NoErr == <<>>
\* RepoCheckoutInfo{}.RepoRoot, the empty string
NoRoot == -1
\* no DockerBuild
NoBuild == [set |-> FALSE]

\* Strings that newGitClient reads are sequences of their bytes.
sHttps == <<"h", "t", "t", "p", "s">>
sGit == <<"g", "i", "t">>
sGitHttps == sGit \o <<"+">> \o sHttps
sHttpsGit == sHttps \o <<"+">> \o sGit

\* no GitClient
NoClient == [built |-> FALSE]
\* a nil *string
NilRef == [set |-> FALSE]

\* newGitClient is not being called (Spec and SpecLog take the client as made).
URIIdle ==
    /\ config = [SourceRepo |-> sHttps \o <<":">>, ForceCheckout |-> FALSE]
    /\ client = NoClient

\* No provenance is being parsed.
ProvIdle ==
    /\ provDb = NoBuild
    /\ provBytes = <<>>
    /\ provTampered = FALSE
    /\ provStmt = <<>>
    /\ provForce = FALSE
    /\ provCfg = <<>>
    /\ provPc = "idle"

\* No command is being run (Spec and SpecURI leave log capture alone).
LogIdle ==
    /\ verbose = FALSE
    /\ src = [s \in Readers |-> <<>>]
    /\ out = src
    /\ pipe = [s \in Readers |-> <<>>]
    /\ childPc = "notStarted"
    /\ callerPc = "idle"
    /\ mpc = "idle"
    /\ cpc = "idle"
    /\ dpc = [s \in Readers |-> "idle"]
    /\ wg = 0
    /\ allBytes = [s \in Readers |-> <<>>]
    /\ cur = [s \in Readers |-> ""]
    /\ scanEnd = [s \in Readers |-> "none"]
    /\ fileOf = [s \in Readers |-> 0]
    /\ res = [s \in Readers |-> [File |-> 0, Err |-> "none"]]
    /\ disk = [f \in FileIds |-> NoFile]
    /\ nextFile = 0
    /\ printClosed = FALSE
    /\ console = <<>>
    /\ fileChannel = <<>>
    /\ fileClosed = FALSE
    /\ files = <<>>
    /\ saveErr = "none"
    /\ waitErr = "unset"

\* No builder exists (SpecLog and SpecURI leave the build state alone).
BuildIdle ==
    /\ cfg = [Alg |-> "sha1", Value |-> "H1", HasRef |-> FALSE,
              ForceCheckout |-> FALSE,
              BuilderImage |-> [Name |-> "", Digest |-> [Alg |-> "", Value |-> ""]]]
    /\ cwd = 0
    /\ fs = <<>>
    /\ tmpCount = 0
    /\ diskLogs = {}
    /\ strayLogs = FALSE
    /\ checkoutInfo = [RepoRoot |-> NoRoot]
    /\ logFiles = <<>>
    /\ errFiles = <<>>
    /\ db = NoBuild
    /\ dockerRuns = 0
    /\ fetched = FALSE
    /\ ops = 0
    /\ failed = FALSE
    /\ last = [op |-> "none", err |-> NoErr, cmds |-> <<>>, subjects |-> 0, ret |-> NoBuild,
                      refs |-> <<>>, args |-> <<>>]

\* ------------------------------------------------------------ log capture

\* A line longer than bufio.MaxScanTokenSize: scanner.Scan returns false on it
\* (bufio.ErrTooLong), exactly as it does at end of input.
TooLong == "LONG"
\* What the child may write: two different lines on stdout, so that their
\* order shows, one on stderr, and on either a line that is too long; up to
\* MaxLines lines on stdout and one fewer on stderr.
Lines(s) == IF s = 1 THEN {"a", "b", TooLong} ELSE {"c", TooLong}

RECURSIVE SeqsUpTo(_, _)
SeqsUpTo(S, n) ==
    IF n = 0 THEN {<<>>}
    ELSE LET shorter == SeqsUpTo(S, n - 1)
         IN  shorter \cup {Append(q, x) : q \in shorter, x \in S}

\* make(chan tempFileResult, len(readers))
FileChannelCapTooSmall == NumReaders - 1
FileChannelCap == NumReaders

InitLog ==
    /\ BuildIdle
    /\ URIIdle
    /\ ProvIdle
    /\ verbose \in BOOLEAN
    /\ \E o1 \in SeqsUpTo(Lines(1), MaxLines), o2 \in SeqsUpTo(Lines(2), MaxLines - 1) :
          src = [s \in Readers |-> IF s = 1 THEN o1 ELSE o2]
    /\ out = src
    /\ pipe = [s \in Readers |-> <<>>]
    /\ childPc = "notStarted"
    /\ callerPc = "start"
    /\ mpc = "idle"
    /\ cpc = "idle"
    /\ dpc = [s \in Readers |-> "idle"]
    /\ wg = 0
    /\ allBytes = [s \in Readers |-> <<>>]
    /\ cur = [s \in Readers |-> ""]
    /\ scanEnd = [s \in Readers |-> "none"]
    /\ fileOf = [s \in Readers |-> 0]
    /\ res = [s \in Readers |-> [File |-> 0, Err |-> "none"]]
    /\ disk = [f \in FileIds |-> NoFile]
    /\ nextFile = 0
    /\ printClosed = FALSE
    /\ console = <<>>
    /\ fileChannel = <<>>
    /\ fileClosed = FALSE
    /\ files = <<>>
    /\ saveErr = "none"
    /\ waitErr = "unset"

\* cmd.Start(): the child runs, or the command could not be started.
CmdStart ==
    /\ callerPc = "start"
    /\ \E ok \in BOOLEAN :
          IF ok
          THEN /\ childPc' = "running"
               /\ callerPc' = "save"
          ELSE /\ callerPc' = "startFailed"
               /\ UNCHANGED childPc
    /\ UNCHANGED <<pvars, uvars, bvars, verbose, src, out, pipe, mpc, cpc, dpc, wg, allBytes, cur,
                   scanEnd, fileOf, res, disk, nextFile, printClosed, console,
                   fileChannel, fileClosed, files, saveErr, waitErr>>

\* The child writes its next line to stream s; it blocks while the pipe is full.
ChildWrite(s) ==
    /\ childPc = "running"
    /\ out[s] # <<>>
    /\ Len(pipe[s]) < PipeCap
    /\ pipe' = [pipe EXCEPT ![s] = Append(@, Head(out[s]))]
    /\ out' = [out EXCEPT ![s] = Tail(@)]
    /\ UNCHANGED <<pvars, uvars, bvars, verbose, src, childPc, callerPc, mpc, cpc, dpc, wg, allBytes,
                   cur, scanEnd, fileOf, res, disk, nextFile, printClosed,
                   console, fileChannel, fileClosed, files, saveErr, waitErr>>

\* The child has written everything and exits, closing its ends of the pipes.
ChildExit ==
    /\ childPc = "running"
    /\ \A s \in Readers : out[s] = <<>>
    /\ childPc' = "exited"
    /\ UNCHANGED <<pvars, uvars, bvars, verbose, src, out, pipe, callerPc, mpc, cpc, dpc, wg,
                   allBytes, cur, scanEnd, fileOf, res, disk, nextFile,
                   printClosed, console, fileChannel, fileClosed, files,
                   saveErr, waitErr>>

\* saveToTempFile up to its first blocking point: wg.Add(1) and a goroutine
\* per reader, then the coordinating goroutine.
SaveToTempFileStart ==
    /\ callerPc = "save"
    /\ callerPc' = "saving"
    /\ wg' = NumReaders
    /\ dpc' = [s \in Readers |-> "scan"]
    /\ cpc' = "wait"
    /\ mpc' = "rangePrint"
    /\ UNCHANGED <<pvars, uvars, bvars, verbose, src, out, pipe, childPc, allBytes, cur, scanEnd,
                   fileOf, res, disk, nextFile, printClosed, console,
                   fileChannel, fileClosed, files, saveErr, waitErr>>

\* `if verbose { printChannel <- string(bytes) }`
ForwardsLinesAlways == TRUE
ForwardsLines == verbose

\* saveOneTempFile: one turn of `for scanner.Scan()`.
Scan(s) ==
    /\ dpc[s] = "scan"
    /\ \/ /\ pipe[s] # <<>>
          /\ Head(pipe[s]) # TooLong
          /\ allBytes' = [allBytes EXCEPT ![s] = Append(@, Head(pipe[s]))]
          /\ pipe' = [pipe EXCEPT ![s] = Tail(@)]
          /\ IF ForwardsLines
             THEN /\ dpc' = [dpc EXCEPT ![s] = "print"]
                  /\ cur' = [cur EXCEPT ![s] = Head(pipe[s])]
             ELSE UNCHANGED <<dpc, cur>>
          /\ UNCHANGED scanEnd
       \/ /\ pipe[s] # <<>>
          /\ Head(pipe[s]) = TooLong
          /\ scanEnd' = [scanEnd EXCEPT ![s] = "err"]
          /\ dpc' = [dpc EXCEPT ![s] = "create"]
          /\ UNCHANGED <<allBytes, pipe, cur>>
       \/ /\ pipe[s] = <<>>
          /\ childPc \in {"exited", "reaped"}
          /\ scanEnd' = [scanEnd EXCEPT ![s] = "eof"]
          /\ dpc' = [dpc EXCEPT ![s] = "create"]
          /\ UNCHANGED <<allBytes, pipe, cur>>
    /\ UNCHANGED <<pvars, uvars, bvars, verbose, src, out, childPc, callerPc, mpc, cpc, wg, fileOf,
                   res, disk, nextFile, printClosed, console, fileChannel,
                   fileClosed, files, saveErr, waitErr>>

\* `printChannel <- string(bytes)` meeting `for line := range printChannel`:
\* the channel is unbuffered, so the send and the receive are one step.
PrintLine(s) ==
    /\ dpc[s] = "print"
    /\ mpc = "rangePrint"
    /\ ~printClosed
    /\ console' = Append(console, cur[s])
    /\ dpc' = [dpc EXCEPT ![s] = "scan"]
    /\ UNCHANGED <<pvars, uvars, bvars, verbose, src, out, pipe, childPc, callerPc, mpc, cpc, wg,
                   allBytes, cur, scanEnd, fileOf, res, disk, nextFile,
                   printClosed, fileChannel, fileClosed, files, saveErr,
                   waitErr>>

\* os.CreateTemp("", "log-*.txt")
CreateTemp(s) ==
    /\ dpc[s] = "create"
    /\ \E ok \in BOOLEAN :
          IF ok
          THEN /\ nextFile' = nextFile + 1
               /\ fileOf' = [fileOf EXCEPT ![s] = nextFile + 1]
               /\ disk' = [disk EXCEPT ![nextFile + 1] = <<>>]
               /\ dpc' = [dpc EXCEPT ![s] = "write"]
               /\ UNCHANGED res
          ELSE /\ res' = [res EXCEPT ![s] = [File |-> 0, Err |-> "createTemp"]]
               /\ dpc' = [dpc EXCEPT ![s] = "send"]
               /\ UNCHANGED <<nextFile, fileOf, disk>>
    /\ UNCHANGED <<pvars, uvars, bvars, verbose, src, out, pipe, childPc, callerPc, mpc, cpc, wg,
                   allBytes, cur, scanEnd, printClosed, console, fileChannel,
                   fileClosed, files, saveErr, waitErr>>

\* tmpfile.Write(allBytes)
WriteTemp(s) ==
    /\ dpc[s] = "write"
    /\ \E ok \in BOOLEAN :
          IF ok
          THEN /\ disk' = [disk EXCEPT ![fileOf[s]] = allBytes[s]]
               /\ res' = [res EXCEPT ![s] = [File |-> fileOf[s], Err |-> "none"]]
          ELSE /\ res' = [res EXCEPT ![s] = [File |-> 0, Err |-> "write"]]
               /\ UNCHANGED disk
    /\ dpc' = [dpc EXCEPT ![s] = "send"]
    /\ UNCHANGED <<pvars, uvars, bvars, verbose, src, out, pipe, childPc, callerPc, mpc, cpc, wg,
                   allBytes, cur, scanEnd, fileOf, nextFile, printClosed,
                   console, fileChannel, fileClosed, files, saveErr, waitErr>>

\* `fileChannel <- tempFileResult{...}`, then the deferred tmpfile.Close() and
\* wg.Done(). The send blocks while the channel's buffer is full.
SendResult(s) ==
    /\ dpc[s] = "send"
    /\ ~fileClosed
    /\ Len(fileChannel) < FileChannelCap
    /\ fileChannel' = Append(fileChannel, res[s])
    /\ dpc' = [dpc EXCEPT ![s] = "done"]
    /\ wg' = wg - 1
    /\ UNCHANGED <<pvars, uvars, bvars, verbose, src, out, pipe, childPc, callerPc, mpc, cpc,
                   allBytes, cur, scanEnd, fileOf, res, disk, nextFile,
                   printClosed, console, fileClosed, files, saveErr, waitErr>>

\* The coordinating goroutine: wg.Wait(); close(printChannel); close(fileChannel).
WaitGroupNotAwaited == TRUE
WaitGroupDone == wg = 0

CoordWait ==
    /\ cpc = "wait"
    /\ WaitGroupDone
    /\ cpc' = "closePrint"
    /\ UNCHANGED <<pvars, uvars, bvars, verbose, src, out, pipe, childPc, callerPc, mpc, dpc, wg,
                   allBytes, cur, scanEnd, fileOf, res, disk, nextFile,
                   printClosed, console, fileChannel, fileClosed, files,
                   saveErr, waitErr>>

CoordClosePrint ==
    /\ cpc = "closePrint"
    /\ printClosed' = TRUE
    /\ cpc' = "closeFile"
    /\ UNCHANGED <<pvars, uvars, bvars, verbose, src, out, pipe, childPc, callerPc, mpc, dpc, wg,
                   allBytes, cur, scanEnd, fileOf, res, disk, nextFile,
                   console, fileChannel, fileClosed, files, saveErr, waitErr>>

CoordCloseFile ==
    /\ cpc = "closeFile"
    /\ fileClosed' = TRUE
    /\ cpc' = "done"
    /\ UNCHANGED <<pvars, uvars, bvars, verbose, src, out, pipe, childPc, callerPc, mpc, dpc, wg,
                   allBytes, cur, scanEnd, fileOf, res, disk, nextFile,
                   printClosed, console, fileChannel, files, saveErr, waitErr>>

\* `for line := range printChannel` ends when the channel is closed.
MainPrintDone ==
    /\ mpc = "rangePrint"
    /\ printClosed
    /\ mpc' = "rangeFile"
    /\ UNCHANGED <<pvars, uvars, bvars, verbose, src, out, pipe, childPc, callerPc, cpc, dpc, wg,
                   allBytes, cur, scanEnd, fileOf, res, disk, nextFile,
                   printClosed, console, fileChannel, fileClosed, files,
                   saveErr, waitErr>>

\* `for result := range fileChannel`: one result, or the end of the loop and
\* the return to the caller, which goes on to cmd.Wait() only without an error.
MainRangeFile ==
    /\ mpc = "rangeFile"
    /\ \/ /\ fileChannel # <<>>
          /\ fileChannel' = Tail(fileChannel)
          /\ IF Head(fileChannel).Err # "none"
             THEN /\ saveErr' = Head(fileChannel).Err
                  /\ files' = <<>>
                  /\ mpc' = "returned"
                  /\ callerPc' = "saveFailed"
             ELSE /\ files' = Append(files, Head(fileChannel).File)
                  /\ UNCHANGED <<saveErr, mpc, callerPc>>
       \/ /\ fileChannel = <<>>
          /\ fileClosed
          /\ mpc' = "returned"
          /\ callerPc' = "wait"
          /\ UNCHANGED <<fileChannel, files, saveErr>>
    /\ UNCHANGED <<pvars, uvars, bvars, verbose, src, out, pipe, childPc, cpc, dpc, wg, allBytes,
                   cur, scanEnd, fileOf, res, disk, nextFile, printClosed,
                   console, fileClosed, waitErr>>

\* cmd.Wait(): returns once the child has exited, with its exit status.
CmdWait ==
    /\ callerPc = "wait"
    /\ childPc = "exited"
    /\ childPc' = "reaped"
    /\ \E e \in {"none", "exit"} : waitErr' = e
    /\ callerPc' = "done"
    /\ UNCHANGED <<pvars, uvars, bvars, verbose, src, out, pipe, mpc, cpc, dpc, wg, allBytes, cur,
                   scanEnd, fileOf, res, disk, nextFile, printClosed, console,
                   fileChannel, fileClosed, files, saveErr>>

NextLog ==
    \/ CmdStart
    \/ \E s \in Readers : ChildWrite(s)
    \/ ChildExit
    \/ SaveToTempFileStart
    \/ \E s \in Readers : Scan(s)
    \/ \E s \in Readers : PrintLine(s)
    \/ \E s \in Readers : CreateTemp(s)
    \/ \E s \in Readers : WriteTemp(s)
    \/ \E s \in Readers : SendResult(s)
    \/ CoordWait
    \/ CoordClosePrint
    \/ CoordCloseFile
    \/ MainPrintDone
    \/ MainRangeFile
    \/ CmdWait

\* The Go scheduler runs every runnable goroutine and the OS runs the child:
\* while some step is possible, one is taken.
SpecLog == InitLog /\ [][NextLog]_vars /\ WF_vars(NextLog)

\* ------------------------------------------------- build-state machine

Commits == {"H1", "H2"}
\* what a git inspection command gives where it fails (no repository, no ref)
NoCommit == "none"

\* Directories: 0 is the directory the process starts in; the n-th fresh fetch
\* creates the temp directory TmpDir(n) and clones into RepoDir(n) inside it.
TmpDir(n) == 2 * n - 1
RepoDir(n) == 2 * n
Dirs == 0..(2 * MaxOps)
NoDir == [exists |-> FALSE, head |-> NoCommit, ref |-> NoCommit, arts |-> 0]

errGitCommitMismatch == "commit mismatch"
errGitFetch == "git fetch"
errGitCheckout == "git checkout"

\* The state the sequential code reads and writes, as one value; cmds collects
\* the external commands the running operation has invoked.
World ==
    [cwd |-> cwd, fs |-> fs, tmpCount |-> tmpCount, diskLogs |-> diskLogs,
     strayLogs |-> strayLogs, root |-> checkoutInfo.RepoRoot, logFiles |-> logFiles,
     errFiles |-> errFiles, dockerRuns |-> dockerRuns, cmds |-> <<>>]

\* exec.Command(...) run by cmd.Start, saveToTempFile and cmd.Wait, by its
\* outcomes (SpecLog has the interleavings): the command did not start; log
\* capture failed, with or without temp files left behind, and the command
\* was not waited for; or both logs were written, files names them, and
\* cmd.Wait returned.
RunCommand(w, cmd) ==
    LET started == [w EXCEPT !.cmds = Append(@, cmd)]
        n == Len(w.logFiles) + Len(w.errFiles)
    IN  {[w |-> w, err |-> <<"couldn't start the command">>, files |-> <<>>,
          started |-> FALSE]}
        \cup {[w |-> [started EXCEPT !.strayLogs = @ \/ left],
               err |-> <<"cannot save logs and errs to file">>,
               files |-> <<>>, started |-> TRUE] : left \in BOOLEAN}
        \cup {[w |-> started, err |-> e, files |-> <<n + 1, n + 2>>,
               started |-> TRUE]
                : e \in {NoErr, <<"failed to complete the command">>}}

\* c.logFiles = append(c.logFiles, files[0]); c.errFiles = append(..., files[1])
RecordLogs(w, fl) ==
    IF fl = <<>> THEN w
    ELSE [w EXCEPT !.logFiles = Append(@, fl[1]), !.errFiles = Append(@, fl[2]),
                   !.diskLogs = @ \cup {fl[1], fl[2]}]

\* GitClient.verifyRefAndCommit: git rev-parse --verify HEAD, then, with a
\* source ref, git show-ref --hash --verify <ref>; a command that fails means
\* "not a repository" (false, nil), a different commit is a mismatch.
verifyRefAndCommit(w) ==
    LET d == w.fs[w.cwd]
        afterHead == [w EXCEPT !.cmds = Append(@, "git rev-parse")]
        afterRef == [afterHead EXCEPT !.cmds = Append(@, "git show-ref")]
    IN  IF d.head = NoCommit
        THEN [ok |-> FALSE, err |-> NoErr, w |-> afterHead]
        ELSE IF d.head # cfg.Value
        THEN [ok |-> FALSE, err |-> <<errGitCommitMismatch>>, w |-> afterHead]
        ELSE IF ~cfg.HasRef
        THEN [ok |-> TRUE, err |-> NoErr, w |-> afterHead]
        ELSE IF d.ref = NoCommit
        THEN [ok |-> FALSE, err |-> NoErr, w |-> afterRef]
        ELSE IF d.ref # cfg.Value
        THEN [ok |-> FALSE, err |-> <<errGitCommitMismatch>>, w |-> afterRef]
        ELSE [ok |-> TRUE, err |-> NoErr, w |-> afterRef]

\* What a clone can put in the new directory: any HEAD, the ref resolving to
\* any commit or not at all, files matching the artifact pattern or none.
ClonedDirs ==
    [exists : {TRUE}, head : Commits, arts : 0..1,
     ref : IF cfg.HasRef THEN Commits \cup {NoCommit} ELSE {NoCommit}]

\* GitClient.cloneGitRepo, run in temp directory TmpDir(w.tmpCount). A clone
\* that failed, or was not waited for, leaves nothing the code reads later:
\* the directory it would have made is entered only after a clone that succeeded.
cloneGitRepo(w) ==
    LET R == RepoDir(w.tmpCount)
        Cloned(x) == {[x EXCEPT !.fs[R] = d] : d \in ClonedDirs}
    IN  UNION {
          LET rec == RecordLogs(r.w, r.files)
          IN  IF ~r.started \/ r.err = <<"failed to complete the command">>
              THEN {[w |-> rec, err |-> r.err]}
              ELSE IF r.err # NoErr
              THEN {[w |-> rec, err |-> r.err]}
              ELSE {[w |-> x, err |-> NoErr] : x \in Cloned(rec)}
          : r \in RunCommand(w, "git clone")}

\* `ok, err := c.verifyRefAndCommit(); if err != nil || !ok { return error }`
CheckoutUnverified(v) == TRUE
CheckoutVerifiedUnlessForced(v) == (v.err = NoErr /\ v.ok) \/ cfg.ForceCheckout
CheckoutVerified(v) == v.err = NoErr /\ v.ok

\* GitClient.checkoutGitCommit, run in the cloned repository's root: git
\* checkout <digest value> leaves HEAD at the commit that string names there.
checkoutGitCommit(w) ==
    LET Moved(x) == {[x EXCEPT !.fs[x.cwd].head = h] : h \in Commits}
    IN  UNION {
          LET rec == RecordLogs(r.w, r.files)
          IN  IF ~r.started \/ r.err = <<"failed to complete the command">>
              THEN {[w |-> rec, err |-> r.err]}
              ELSE IF r.err # NoErr
              THEN {[w |-> x, err |-> r.err] : x \in {rec} \cup Moved(rec)}
              ELSE {LET v == verifyRefAndCommit(x)
                    IN  IF CheckoutVerified(v)
                        THEN [w |-> v.w, err |-> NoErr]
                        ELSE [w |-> v.w,
                              err |-> <<"failed to verify ref and commit">> \o v.err]
                    : x \in Moved(rec)}
          : r \in RunCommand(w, "git checkout")}

\* `cwd, err := os.Getwd()` after os.Chdir(repoName), kept for
\* `c.checkoutInfo.RepoRoot = cwd`: the root of the clone, not the directory
\* the process was in when the fetch began.
DirectoryFetchBeganIn(before, inRepo) == before.cwd
ClonedRepoRoot(before, inRepo) == inRepo.cwd

\* GitClient.fetchSourcesFromGitRepo
fetchSourcesFromGitRepo(w) ==
    LET n == w.tmpCount + 1
        made == [w EXCEPT !.tmpCount = n, !.fs[TmpDir(n)].exists = TRUE]
        inTmp == [made EXCEPT !.cwd = TmpDir(n)]
        AfterClone(c) ==
            IF c.err # NoErr
            THEN {[w |-> c.w, err |-> <<errGitFetch, "couldn't clone the Git repo">> \o c.err]}
            ELSE IF ~c.w.fs[RepoDir(n)].exists
            THEN {[w |-> c.w, err |-> <<"couldn't change directory">>]}
            ELSE LET inRepo == [c.w EXCEPT !.cwd = RepoDir(n)]
                 IN  {[w |-> c.w, err |-> <<"couldn't change directory">>],
                      [w |-> inRepo, err |-> <<"couldn't get current working directory">>]}
                     \cup {IF k.err # NoErr
                           THEN [w |-> k.w,
                                 err |-> <<errGitCheckout, "couldn't checkout the Git commit">> \o k.err]
                           ELSE [w |-> [k.w EXCEPT !.root = ClonedRepoRoot(w, inRepo)],
                                 err |-> NoErr]
                           : k \in checkoutGitCommit(inRepo)}
    IN  {[w |-> w, err |-> <<"couldn't create temp directory">>],
         [w |-> made, err |-> <<"couldn't create directories">>],
         [w |-> made, err |-> <<"couldn't change directory">>]}
        \cup UNION {AfterClone(c) : c \in cloneGitRepo(inTmp)}

\* `if err != nil && !c.forceCheckout { return err }`
MismatchNeverFatal(v) == FALSE
MismatchFatal(v) == v.err # NoErr /\ ~cfg.ForceCheckout

\* `if !repoIsCheckedOut || c.forceCheckout`
FetchOnlyIfNotCheckedOut(v) == ~v.ok
FetchAlways(v) == TRUE
NeedsFetch(v) == ~v.ok \/ cfg.ForceCheckout

\* `if c.sourceDigest.Alg != "sha1" { return error }`
AnyDigestAlg == TRUE
DigestIsSha1 == cfg.Alg = "sha1"

\* GitClient.verifyOrFetchRepo
verifyOrFetchRepo(w) ==
    IF ~DigestIsSha1
    THEN {[w |-> w, err |-> <<"git commit digest must be a sha1 digest">>]}
    ELSE LET v == verifyRefAndCommit(w)
         IN  IF MismatchFatal(v)
             THEN {[w |-> v.w, err |-> v.err]}
             ELSE IF NeedsFetch(v)
             THEN {IF r.err # NoErr
                   THEN [w |-> r.w, err |-> <<"couldn't fetch sources">> \o r.err]
                   ELSE r
                   : r \in fetchSourcesFromGitRepo(v.w)}
             ELSE {[w |-> v.w, err |-> NoErr]}

\* GitClient.Fetch: (c.checkoutInfo, nil) or (nil, err)
GitClientFetch(w) == verifyOrFetchRepo(w)

\* The command a config file declares in the runs of the build-state machine.
Commands == {<<"make", "release">>}
\* The commands tried on the container invocation (SpecRun): none, one word,
\* the same words in two orders, a word with a space in it.
RunCommands ==
    {<<>>, <<"make">>, <<"make", "release">>, <<"release", "make">>,
     <<"sh", "-c", "make release">>}

\* DockerBuildConfig.LoadBuildConfigFromFile: the parsed BuildConfig, whose
\* ArtifactPath is a well-formed pattern or a malformed one, or an error.
LoadBuildConfigFromFile ==
    {[bc |-> [ArtifactPath |-> "none", Command |-> <<>>],
      err |-> <<"couldn't load config file">>],
     [bc |-> [ArtifactPath |-> "malformed", Command |-> <<"make">>], err |-> NoErr]}
    \cup {[bc |-> [ArtifactPath |-> "glob", Command |-> c], err |-> NoErr]
             : c \in Commands}

\* filepath.Glob(pattern), relative to the current working directory
Glob(w, pattern) ==
    IF pattern = "malformed"
    THEN [matches |-> 0, err |-> <<"the pattern is malformed">>]
    ELSE [matches |-> w.fs[w.cwd].arts, err |-> NoErr]

\* CheckExistingFiles
CheckExistingFilesNever(w, pattern) == NoErr
CheckExistingFiles(w, pattern) ==
    LET g == Glob(w, pattern)
    IN  IF g.err # NoErr THEN g.err
        ELSE IF g.matches = 0 THEN NoErr
        ELSE <<"the specified pattern matches existing files; expected no matches">>

\* Builder.SetUpBuildState: (db, nil) or (nil, err)
SetUpBuildStateResults(w) ==
    UNION {
      IF f.err # NoErr
      THEN {[w |-> f.w, db |-> NoBuild,
             err |-> <<"couldn't verify or fetch source repo">> \o f.err]}
      ELSE {IF l.err # NoErr
            THEN [w |-> f.w, db |-> NoBuild, err |-> l.err]
            ELSE IF CheckExistingFiles(f.w, l.bc.ArtifactPath) # NoErr
            THEN [w |-> f.w, db |-> NoBuild,
                  err |-> CheckExistingFiles(f.w, l.bc.ArtifactPath)]
            ELSE [w |-> f.w, err |-> NoErr,
                  db |-> [set |-> TRUE, config |-> cfg, buildConfig |-> l.bc,
                          RepoInfo |-> "checkoutInfo"]]
            : l \in LoadBuildConfigFromFile}
      : f \in GitClientFetch(w)}

\* The builder images a DockerBuildConfig names; the build-state machine
\* runs with the first.
ExampleImage == [Name |-> "example.com/img", Digest |-> [Alg |-> "sha256", Value |-> "abcd"]]
BuilderImages ==
    {ExampleImage,
     [Name |-> "gcr.io/builder", Digest |-> [Alg |-> "sha256", Value |-> "ef01"]]}

\* A string that is serialized or taken apart is the sequence of its pieces:
\* stretches of plain ASCII, and single pieces for what JSON treats specially,
\* "<", ">", "&" (HTML characters), "xFF" (a byte that is not valid UTF-8) and
\* "uFFFD" (the Unicode replacement character). Text(s) is the string whole.
RECURSIVE Text(_)
Text(s) == IF s = <<>> THEN "" ELSE Head(s) \o Text(Tail(s))

\* DockerImage.ToString: the image reference with its digest, name@alg:value
ImageToString(img) == <<img.Name, "@", img.Digest.Alg, ":", img.Digest.Value>>

\* Digest.ToMap: {alg: value}
DigestToMap(d) == [a \in {d.Alg} |-> <<d.Value>>]

\* builderImage(config)
builderImage(c) ==
    [URI |-> ImageToString(c.BuilderImage),
     Digest |-> DigestToMap(c.BuilderImage.Digest)]

\* The absolute path of a directory, as os.Getwd returns it.
DirPath(d) ==
    IF d = 0 THEN "/src"
    ELSE IF d % 2 = 1 THEN "/tmp/release-" \o ToString((d + 1) \div 2)
    ELSE "/tmp/release-" \o ToString(d \div 2) \o "/repo"

\* runDockerRun's argument list for exec.Command("docker", args...)
DockerRunArgsWithoutRm(cwdPath, uri, command) ==
    <<"run", "--volume=" \o cwdPath \o ":/workspace", "--workdir=/workspace", uri>>
        \o command
DockerRunArgs(cwdPath, uri, command) ==
    LET defaultDockerRunFlags ==
            <<"--volume=" \o cwdPath \o ":/workspace", "--workdir=/workspace", "--rm">>
    IN  <<"run">> \o defaultDockerRunFlags \o <<uri>> \o command

\* runDockerRun: docker run --volume=<cwd>:/workspace ... ; the command may
\* write files matching the artifact pattern into the mounted directory.
\* refs: the log files that the returned error names ("see %s for logs, and
\* %s for errors"), none in the errors that name no file. args: the argument
\* list of the command that was started, empty when none was.
runDockerRun(w, build) ==
    IF ~w.fs[w.cwd].exists
    THEN {[w |-> w, err |-> <<"couldn't get the current working directory">>,
           refs |-> <<>>, args |-> <<>>]}
    ELSE UNION {
           IF ~r.started
           THEN {[w |-> r.w, err |-> r.err, refs |-> <<>>, args |-> <<>>]}
           ELSE {[w |-> [r.w EXCEPT !.dockerRuns = @ + 1,
                                    !.strayLogs = @ \/ r.files # <<>>,
                                    !.fs[w.cwd].arts = IF @ + k > MaxArts THEN MaxArts ELSE @ + k],
                  err |-> r.err,
                  refs |-> IF r.err = <<"failed to complete the command">>
                           THEN r.files ELSE <<>>,
                  args |-> DockerRunArgs(DirPath(w.cwd),
                                         Text(builderImage(build.config).URI),
                                         build.buildConfig.Command)] : k \in 0..1}
           : r \in RunCommand(w, "docker run")}

\* inspectAndWriteArtifacts: the subjects (one per match), or an error.
NoMatchIsFine(n) == FALSE
NoMatch(n) == n = 0
inspectAndWriteArtifacts(w, pattern, outputFolder, root) ==
    LET g == Glob(w, pattern)
    IN  IF g.err # NoErr THEN {[subjects |-> 0, err |-> g.err]}
        ELSE IF NoMatch(g.matches)
        THEN {[subjects |-> 0, err |-> <<"no files matching the pattern">>]}
        ELSE {[subjects |-> g.matches, err |-> NoErr],
              [subjects |-> 0, err |-> <<"couldn't read file">>]}
             \cup (IF outputFolder # ""
                   THEN {[subjects |-> 0, err |-> <<"creating new output file">>],
                         [subjects |-> 0, err |-> <<"writing output file">>]}
                   ELSE {})

\* DockerBuild.BuildArtifacts
BuildArtifactsResults(w, build, outputFolder) ==
    UNION {
      IF r.err # NoErr
      THEN {[w |-> r.w, subjects |-> 0, refs |-> r.refs, args |-> r.args,
             err |-> <<"running docker run failed">> \o r.err]}
      ELSE {[w |-> r.w, subjects |-> i.subjects, err |-> i.err, refs |-> <<>>,
             args |-> r.args]
            : i \in inspectAndWriteArtifacts(r.w, build.buildConfig.ArtifactPath,
                                             outputFolder, r.w.root)}
      : r \in runDockerRun(w, build)}

\* RepoCheckoutInfo.Cleanup: os.RemoveAll(info.RepoRoot), a failure only logged.
CleanupRemovesCwdWhenEmpty(w) ==
    {w, [w EXCEPT !.fs[IF w.root = NoRoot THEN w.cwd ELSE w.root] = NoDir]}
CleanupResults(w) ==
    IF w.root = NoRoot THEN {w}
    ELSE {w, [w EXCEPT !.fs[w.root] = NoDir]}

\* GitClient.cleanupAllFiles
cleanupAllFilesResults(w) ==
    {[x EXCEPT !.diskLogs = @ \ {(logFiles \o errFiles)[i] : i \in 1..Len(logFiles \o errFiles)}]
      : x \in CleanupResults(w)}

Init ==
    /\ LogIdle
    /\ URIIdle
    /\ ProvIdle
    /\ cfg \in [Alg : {"sha1", "sha256"}, Value : Commits, HasRef : BOOLEAN,
                ForceCheckout : BOOLEAN, BuilderImage : {ExampleImage}]
    /\ cwd = 0
    /\ \E d \in [exists : {TRUE}, head : Commits \cup {NoCommit},
                 ref : Commits \cup {NoCommit}, arts : 0..1] :
          /\ (d.head = NoCommit \/ ~cfg.HasRef) => d.ref = NoCommit
          /\ fs = [x \in Dirs |-> IF x = 0 THEN d ELSE NoDir]
    /\ tmpCount = 0
    /\ diskLogs = {}
    /\ strayLogs = FALSE
    /\ checkoutInfo = [RepoRoot |-> NoRoot]
    /\ logFiles = <<>>
    /\ errFiles = <<>>
    /\ db = NoBuild
    /\ dockerRuns = 0
    /\ fetched = FALSE
    /\ ops = 0
    /\ failed = FALSE
    /\ last = [op |-> "none", err |-> NoErr, cmds |-> <<>>, subjects |-> 0, ret |-> NoBuild,
                      refs |-> <<>>, args |-> <<>>]

\* The world after an operation.
Apply(w) ==
    /\ cwd' = w.cwd
    /\ fs' = w.fs
    /\ tmpCount' = w.tmpCount
    /\ diskLogs' = w.diskLogs
    /\ strayLogs' = w.strayLogs
    /\ checkoutInfo' = [RepoRoot |-> w.root]
    /\ logFiles' = w.logFiles
    /\ errFiles' = w.errFiles
    /\ dockerRuns' = w.dockerRuns

\* The operations, called in any order while none has failed: a caller that
\* gets an error ends the build attempt and at most cleans up.
Fetch ==
    /\ ops < MaxOps
    /\ ~failed
    /\ \E r \in GitClientFetch(World) :
          /\ Apply(r.w)
          /\ fetched' = (fetched \/ r.err = NoErr)
          /\ last' = [op |-> "Fetch", err |-> r.err, cmds |-> r.w.cmds, subjects |-> 0,
                      ret |-> NoBuild,
                      refs |-> <<>>, args |-> <<>>]
          /\ failed' = (r.err # NoErr)
    /\ ops' = ops + 1
    /\ UNCHANGED <<cfg, db>>
    /\ UNCHANGED <<lvars, uvars, pvars>>

SetUpBuildState ==
    /\ ops < MaxOps
    /\ ~failed
    /\ \E r \in SetUpBuildStateResults(World) :
          /\ Apply(r.w)
          /\ fetched' = (fetched \/ r.err = NoErr \/ r.err[1] # "couldn't verify or fetch source repo")
          /\ db' = IF r.err = NoErr THEN r.db ELSE db
          /\ last' = [op |-> "SetUpBuildState", err |-> r.err, cmds |-> r.w.cmds,
                      subjects |-> 0, ret |-> r.db, refs |-> <<>>, args |-> <<>>]
          /\ failed' = (r.err # NoErr)
    /\ ops' = ops + 1
    /\ UNCHANGED cfg
    /\ UNCHANGED <<lvars, uvars, pvars>>

BuildArtifacts ==
    /\ ops < MaxOps
    /\ ~failed
    /\ db # NoBuild
    /\ \E outputFolder \in {"", "out"} :
       \E r \in BuildArtifactsResults(World, db, outputFolder) :
          /\ Apply(r.w)
          /\ last' = [op |-> "BuildArtifacts", err |-> r.err, cmds |-> r.w.cmds,
                      subjects |-> r.subjects, ret |-> NoBuild, refs |-> r.refs,
                      args |-> r.args]
          /\ failed' = (r.err # NoErr)
    /\ ops' = ops + 1
    /\ UNCHANGED <<cfg, db, fetched>>
    /\ UNCHANGED <<lvars, uvars, pvars>>

\* RepoCheckoutInfo.Cleanup, on the info a Fetch or a DockerBuild handed out.
Cleanup ==
    /\ ops < MaxOps
    /\ fetched
    /\ \E w \in CleanupResults(World) :
          /\ Apply(w)
          /\ last' = [op |-> "Cleanup", err |-> NoErr, cmds |-> <<>>, subjects |-> 0, ret |-> NoBuild,
                      refs |-> <<>>, args |-> <<>>]
    /\ ops' = ops + 1
    /\ UNCHANGED <<cfg, db, fetched, failed>>
    /\ UNCHANGED <<lvars, uvars, pvars>>

cleanupAllFiles ==
    /\ ops < MaxOps
    /\ \E w \in cleanupAllFilesResults(World) :
          /\ Apply(w)
          /\ last' = [op |-> "cleanupAllFiles", err |-> NoErr, cmds |-> <<>>,
                      subjects |-> 0, ret |-> NoBuild,
                      refs |-> <<>>, args |-> <<>>]
    /\ ops' = ops + 1
    /\ UNCHANGED <<cfg, db, fetched, failed>>
    /\ UNCHANGED <<lvars, uvars, pvars>>

Next ==
    \/ Fetch
    \/ SetUpBuildState
    \/ BuildArtifacts
    \/ Cleanup
    \/ cleanupAllFiles

Spec == Init /\ [][Next]_vars

\* The container invocation alone: a DockerBuild as SetUpBuildState returns
\* it, in the directory the process started in or in a fresh checkout, and
\* BuildArtifacts called on it.
InitRun ==
    /\ LogIdle
    /\ URIIdle
    /\ ProvIdle
    /\ cfg \in [Alg : {"sha1"}, Value : {"H1"}, HasRef : {FALSE},
                ForceCheckout : {FALSE}, BuilderImage : BuilderImages]
    /\ cwd \in {0, RepoDir(1)}
    /\ fs = [x \in Dirs |->
                IF x = cwd
                THEN [exists |-> TRUE, head |-> "H1", ref |-> NoCommit, arts |-> 0]
                ELSE IF x = TmpDir(1) /\ cwd # 0
                THEN [NoDir EXCEPT !.exists = TRUE]
                ELSE NoDir]
    /\ tmpCount = IF cwd = 0 THEN 0 ELSE 1
    /\ diskLogs = {}
    /\ strayLogs = FALSE
    /\ checkoutInfo = [RepoRoot |-> IF cwd = 0 THEN NoRoot ELSE cwd]
    /\ logFiles = <<>>
    /\ errFiles = <<>>
    /\ \E c \in RunCommands :
          db = [set |-> TRUE, config |-> cfg,
                buildConfig |-> [ArtifactPath |-> "glob", Command |-> c],
                RepoInfo |-> "checkoutInfo"]
    /\ dockerRuns = 0
    /\ fetched = TRUE
    /\ ops = 0
    /\ failed = FALSE
    /\ last = [op |-> "none", err |-> NoErr, cmds |-> <<>>, subjects |-> 0, ret |-> NoBuild,
               refs |-> <<>>, args |-> <<>>]

NextRun == BuildArtifacts

SpecRun == InitRun /\ [][NextRun]_vars

\* ------------------------------------------------------------ newGitClient

UpperCase == <<"A", "B", "C", "D", "E", "F", "G", "H", "I", "J", "K", "L", "M",
               "N", "O", "P", "Q", "R", "S", "T", "U", "V", "W", "X", "Y", "Z">>
LowerCase == <<"a", "b", "c", "d", "e", "f", "g", "h", "i", "j", "k", "l", "m",
               "n", "o", "p", "q", "r", "s", "t", "u", "v", "w", "x", "y", "z">>

\* strings.ToLower, as url.Parse applies it to the scheme
Lower(c) ==
    IF \E i \in 1..26 : UpperCase[i] = c
    THEN LowerCase[CHOOSE i \in 1..26 : UpperCase[i] = c]
    ELSE c
ToLower(s) == [i \in 1..Len(s) |-> Lower(s[i])]

IsLetter(c) == \E i \in 1..26 : c = UpperCase[i] \/ c = LowerCase[i]
SchemeExtra == {"0", "1", "2", "3", "4", "5", "6", "7", "8", "9", "+", "-", "."}

\* url.Parse, as far as newGitClient reads its result: the scheme is the
\* bytes before the first ":" when they are letters, or digits, "+", "-", "."
\* after the first byte; it is returned in lower case. A leading ":" is an error.
urlParse(raw) ==
    LET Stops == {i \in 1..Len(raw) :
                     ~IsLetter(raw[i]) /\ ~(i > 1 /\ raw[i] \in SchemeExtra)}
        stop == IF Stops = {} THEN 0
                ELSE CHOOSE i \in Stops : \A j \in Stops : i <= j
    IN  IF stop = 0 \/ raw[stop] # ":"
        THEN [err |-> NoErr, Scheme |-> <<>>, rest |-> raw]
        ELSE IF stop = 1
        THEN [err |-> <<"missing protocol scheme">>, Scheme |-> <<>>, rest |-> <<>>]
        ELSE [err |-> NoErr, Scheme |-> ToLower(SubSeq(raw, 1, stop - 1)),
              rest |-> SubSeq(raw, stop + 1, Len(raw))]

\* strings.Index: where old first occurs in s, 0 when it does not
Index(s, old) ==
    LET At == {i \in 1..(Len(s) - Len(old) + 1) : SubSeq(s, i, i + Len(old) - 1) = old}
    IN  IF At = {} THEN 0 ELSE CHOOSE i \in At : \A j \in At : i <= j

\* strings.Replace(s, old, new, 1)
ReplaceFirst(s, old, new) ==
    LET i == Index(s, old)
    IN  IF i = 0 THEN s
        ELSE SubSeq(s, 1, i - 1) \o new \o SubSeq(s, i + Len(old), Len(s))

\* strings.Split(s, "@")
Split(s) ==
    LET Ats == {i \in 1..Len(s) : s[i] = "@"}
        RECURSIVE parts(_)
        parts(from) ==
            LET Later == {i \in Ats : i >= from}
            IN  IF Later = {} THEN <<SubSeq(s, from, Len(s))>>
                ELSE LET i == CHOOSE k \in Later : \A j \in Later : k <= j
                     IN  <<SubSeq(s, from, i - 1)>> \o parts(i + 1)
    IN  parts(1)

\* strings.TrimSuffix
TrimSuffix(s, suffix) ==
    IF Len(s) >= Len(suffix) /\ SubSeq(s, Len(s) - Len(suffix) + 1, Len(s)) = suffix
    THEN SubSeq(s, 1, Len(s) - Len(suffix))
    ELSE s

\* newGitClient(config, depth): the GitClient, or an error
newGitClient(c) ==
    LET parsed == urlParse(c.SourceRepo)
        Failed(e) == [built |-> TRUE, err |-> e]
    IN  IF parsed.err # NoErr
        THEN Failed(<<"could not parse repo URI">> \o parsed.err)
        ELSE IF parsed.Scheme \notin {sHttps, sGitHttps, sHttpsGit}
        THEN Failed(<<"unsupported scheme">>)
        ELSE LET repo == IF parsed.Scheme = sGitHttps
                         THEN ReplaceFirst(c.SourceRepo, sGitHttps, sHttps)
                         ELSE IF parsed.Scheme = sHttpsGit
                         THEN ReplaceFirst(c.SourceRepo, sHttpsGit, sHttps)
                         ELSE c.SourceRepo
                 refParts == Split(repo)
             IN  IF Len(refParts) = 2
                 THEN [built |-> TRUE, err |-> NoErr,
                       sourceRepo |-> TrimSuffix(repo, <<"@">> \o refParts[2]),
                       sourceRef |-> [set |-> TRUE, val |-> refParts[2]],
                       forceCheckout |-> c.ForceCheckout,
                       checkoutInfo |-> [RepoRoot |-> NoRoot]]
                 ELSE IF Len(refParts) = 1
                 THEN [built |-> TRUE, err |-> NoErr,
                       sourceRepo |-> repo,
                       sourceRef |-> NilRef,
                       forceCheckout |-> c.ForceCheckout,
                       checkoutInfo |-> [RepoRoot |-> NoRoot]]
                 ELSE Failed(<<"invalid source repository format">>)

\* The source URIs tried: a scheme, in the case the config file gives it, and
\* what follows the colon.
Schemes ==
    {sHttps, sGitHttps, sHttpsGit,
     <<"G", "I", "T", "+", "H", "T", "T", "P", "S">>,
     <<"G", "i", "t", "+">> \o sHttps,
     <<"H", "T", "T", "P", "S", "+", "G", "I", "T">>,
     <<"h", "t", "t", "p">>,
     <<"s", "s", "h">>}
Host == <<"/", "/", "h", "/">>
Rests ==
    {Host \o <<"r">>,
     Host \o <<"r", "@", "v">>,
     Host \o <<"r", "@", "v", "@", "w">>,
     Host \o <<"r", "@">>,
     <<"/", "/", "u", "@", "h", "/", "r">>,
     Host \o sGitHttps,
     Host \o sHttpsGit \o <<"@", "v">>,
     <<"/", "/", "H", "/", "R">>}

InitURI ==
    /\ LogIdle
    /\ BuildIdle
    /\ ProvIdle
    /\ config \in [SourceRepo : {s \o <<":">> \o r : s \in Schemes, r \in Rests},
                   ForceCheckout : BOOLEAN]
    /\ client = NoClient

NewGitClient ==
    /\ client = NoClient
    /\ client' = newGitClient(config)
    /\ UNCHANGED <<config, lvars, bvars, pvars>>

NextURI == NewGitClient

SpecURI == InitURI /\ [][NextURI]_vars

\* ------------------------------------------------ provenance round trip

\* A Go slice of strings: nil, or its elements.
NilSlice == [isNil |-> TRUE, elems |-> <<>>]
Slice(es) == [isNil |-> FALSE, elems |-> es]

\* sourceArtifact(config)
sourceArtifact(c) ==
    [URI |-> c.SourceRepo, Digest |-> DigestToMap(c.SourceDigest)]

\* DockerBuild.CreateBuildDefinition
CreateBuildDefinition(d) ==
    [BuildType |-> "ContainerBasedBuildType",
     ExternalParameters |->
        [Source |-> sourceArtifact(d.config),
         BuilderImage |-> builderImage(d.config),
         ConfigPath |-> d.config.BuildConfigPath,
         Config |-> d.buildConfig],
     ResolvedDependencies |-> <<sourceArtifact(d.config)>>]

\* JSON values
JNull == [j |-> "null"]
JString(text) == [j |-> "string", text |-> text]
JArray(es) == [j |-> "array", elems |-> es]
JObject(flds) == [j |-> "object", fields |-> flds]

\* json.Marshal of a string, piece by piece: HTML characters are written as
\* \u escapes, a byte that is not valid UTF-8 as the escape of U+FFFD.
EncodePiece(c) ==
    IF c = "<" THEN "\\u003c"
    ELSE IF c = ">" THEN "\\u003e"
    ELSE IF c = "&" THEN "\\u0026"
    ELSE IF c = "xFF" THEN "\\ufffd"
    ELSE c
EncodeString(s) == [i \in 1..Len(s) |-> EncodePiece(s[i])]

\* json.Unmarshal of a string: escapes give their characters, a byte that is
\* not valid UTF-8 gives U+FFFD.
DecodePiece(c) ==
    IF c = "\\u003c" THEN "<"
    ELSE IF c = "\\u003e" THEN ">"
    ELSE IF c = "\\u0026" THEN "&"
    ELSE IF c = "\\ufffd" THEN "uFFFD"
    ELSE IF c = "xFF" THEN "uFFFD"
    ELSE c
DecodeString(text) == [i \in 1..Len(text) |-> DecodePiece(text[i])]

\* json.Marshal of the external parameters as the statement's writer holds
\* them: ResourceDescriptor leaves out an empty uri and an empty digest
\* (omitempty), a nil slice is written as null.
MarshalStrings(sl) ==
    IF sl.isNil THEN JNull
    ELSE JArray([i \in 1..Len(sl.elems) |-> JString(EncodeString(sl.elems[i]))])
MarshalResourceDescriptor(rd) ==
    JObject([k \in (IF rd.URI = <<>> THEN {} ELSE {"uri"})
                   \cup (IF DOMAIN rd.Digest = {} THEN {} ELSE {"digest"}) |->
               IF k = "uri" THEN JString(EncodeString(rd.URI))
               ELSE JObject([a \in DOMAIN rd.Digest |->
                                JString(EncodeString(rd.Digest[a]))])])
MarshalBuildConfig(bc) ==
    JObject([k \in {"Command", "ArtifactPath"} |->
               IF k = "Command" THEN MarshalStrings(bc.Command)
               ELSE JString(EncodeString(bc.ArtifactPath))])
MarshalExternalParameters(ep) ==
    JObject([k \in {"source", "builderImage", "configPath", "config"} |->
               IF k = "source" THEN MarshalResourceDescriptor(ep.Source)
               ELSE IF k = "builderImage" THEN MarshalResourceDescriptor(ep.BuilderImage)
               ELSE IF k = "configPath" THEN JString(EncodeString(ep.ConfigPath))
               ELSE MarshalBuildConfig(ep.Config)])

\* The statement's bytes: valid JSON holding the external parameters under
\* predicate.buildDefinition, or bytes that are no JSON document.
SerializeStatement(def) ==
    [valid |-> TRUE, externalParameters |-> MarshalExternalParameters(def.ExternalParameters)]
NotJSON == [valid |-> FALSE, externalParameters |-> JNull]

\* json.Unmarshal into the interface-typed ExternalParameters field, and
\* json.Marshal of what it gave: strings are decoded and encoded again,
\* objects become maps and objects again.
RECURSIVE Remarshal(_)
Remarshal(v) ==
    IF v.j = "string" THEN JString(EncodeString(DecodeString(v.text)))
    ELSE IF v.j = "array" THEN JArray([i \in 1..Len(v.elems) |-> Remarshal(v.elems[i])])
    ELSE IF v.j = "object"
    THEN JObject([k \in DOMAIN v.fields |-> Remarshal(v.fields[k])])
    ELSE v

\* json.Unmarshal into ContainerBasedExternalParameters: a field that the
\* document lacks, or gives as null, keeps its zero value; a value of another
\* JSON type is an error.
Has(o, k) == o.j = "object" /\ k \in DOMAIN o.fields /\ o.fields[k].j # "null"
IsStringOrAbsent(o, k) == Has(o, k) => o.fields[k].j = "string"
IsObjectOrAbsent(o, k) == Has(o, k) => o.fields[k].j = "object"
StringField(o, k) == IF Has(o, k) THEN DecodeString(o.fields[k].text) ELSE <<>>
UnmarshalDigest(o) ==
    IF Has(o, "digest")
    THEN [a \in DOMAIN o.fields["digest"].fields |->
             DecodeString(o.fields["digest"].fields[a].text)]
    ELSE <<>>
UnmarshalResourceDescriptor(o) ==
    [URI |-> StringField(o, "uri"), Digest |-> UnmarshalDigest(o)]
UnmarshalStrings(o, k) ==
    IF ~Has(o, k) THEN NilSlice
    ELSE Slice([i \in 1..Len(o.fields[k].elems) |->
                   DecodeString(o.fields[k].elems[i].text)])
UnmarshalBuildConfig(o) ==
    [Command |-> UnmarshalStrings(o, "Command"),
     ArtifactPath |-> StringField(o, "ArtifactPath")]
EmptyObject == JObject(<<>>)
ObjectField(o, k) == IF Has(o, k) THEN o.fields[k] ELSE EmptyObject
WellTyped(o) ==
    /\ o.j \in {"object", "null"}
    /\ IsObjectOrAbsent(o, "source") /\ IsObjectOrAbsent(o, "builderImage")
    /\ IsStringOrAbsent(o, "configPath") /\ IsObjectOrAbsent(o, "config")
UnmarshalExternalParameters(o) ==
    [Source |-> UnmarshalResourceDescriptor(ObjectField(o, "source")),
     BuilderImage |-> UnmarshalResourceDescriptor(ObjectField(o, "builderImage")),
     ConfigPath |-> StringField(o, "configPath"),
     Config |-> UnmarshalBuildConfig(ObjectField(o, "config"))]

\* ParseProvenance(bytes): the statement with its external parameters as
\* ContainerBasedExternalParameters, or an error
ParseProvenance(bytes) ==
    IF ~bytes.valid
    THEN [err |-> <<"could not unmarshal the provenance file">>]
    ELSE LET b == Remarshal(bytes.externalParameters)
         IN  IF ~WellTyped(b)
             THEN [err |-> <<"could not unmarshal JSON bytes into a BuildConfig">>]
             ELSE [err |-> NoErr, ExternalParameters |-> UnmarshalExternalParameters(b)]

\* validateDockerImage(uri): the image of a reference name@sha256:value, or
\* an error
validateDockerImage(uri) ==
    IF Len(uri) = 5 /\ uri[2] = "@" /\ uri[3] = "sha256" /\ uri[4] = ":" /\ uri[5] # ""
    THEN [err |-> NoErr,
          image |-> [Name |-> uri[1], Digest |-> [Alg |-> uri[3], Value |-> uri[5]]]]
    ELSE [err |-> <<"validating Docker image URI">>]

\* `di.Digest.Value != ep.BuilderImage.Digest[di.Digest.Alg]`: a key the map
\* lacks reads as the empty string.
MapLookup(m, k) == IF k \in DOMAIN m THEN m[k] ELSE <<>>
ImageDigestNotCompared(di, ep) == TRUE
ImageDigestMatches(di, ep) ==
    <<di.Digest.Value>> = MapLookup(ep.BuilderImage.Digest, di.Digest.Alg)

\* ProvenanceStatementSLSA1.ToDockerBuildConfig(forceCheckout)
ToDockerBuildConfig(p, forceCheckout) ==
    LET ep == p.ExternalParameters
        di == validateDockerImage(ep.BuilderImage.URI)
    IN  IF di.err # NoErr
        THEN [err |-> di.err]
        ELSE IF ~ImageDigestMatches(di.image, ep)
        THEN [err |-> <<"invalid Docker image digest">>]
        ELSE IF "sha1" \notin DOMAIN ep.Source.Digest
        THEN [err |-> <<"missing sha1 digest for source">>]
        ELSE [err |-> NoErr,
              SourceRepo |-> ep.Source.URI,
              SourceDigest |-> [Alg |-> "sha1", Value |-> ep.Source.Digest["sha1"]],
              BuilderImage |-> di.image,
              BuildConfigPath |-> ep.ConfigPath,
              ForceCheckout |-> forceCheckout,
              Verbose |-> FALSE]

\* The builds recorded: source locators and configuration paths of plain
\* text, with HTML characters, with a byte that is not valid UTF-8 (a file
\* name may hold any byte); a sha1 or a sha256 source digest; commands nil,
\* empty, or of two elements.
ProvSourceRepos ==
    {<<"https://h/r">>, <<"https://h/r?a=1", "&", "b=", "<", "2", ">">>,
     <<"https://h/r", "uFFFD">>, <<"https://h/", "xFF">>}
ProvDigests == {[Alg |-> "sha1", Value |-> "aa11"], [Alg |-> "sha256", Value |-> "bb22"]}
ProvConfigPaths == {<<>>, <<"build.toml">>, <<"cfg/", "xFF", ".toml">>}
ProvCommands == {NilSlice, Slice(<<>>), Slice(<<<<"make">>, <<"a", "<", "b">>>>)}

\* What a statement can be when it reaches the parser other than as written:
\* no JSON at all, the builder image's digest changed or dropped, the source
\* digest dropped, a field of another JSON type.
Tampered(doc) ==
    LET ep == doc.externalParameters
        image == ep.fields["builderImage"]
        WithImageDigest(v) ==
            [doc EXCEPT !.externalParameters.fields["builderImage"].fields["digest"] = v]
    IN  {NotJSON,
         WithImageDigest(JObject([a \in {"sha256"} |-> JString(<<"ffff">>)])),
         WithImageDigest(JObject([a \in {"sha512"} |-> image.fields["digest"].fields["sha256"]])),
         [doc EXCEPT !.externalParameters.fields["source"] =
             JObject([k \in {"uri"} |-> ep.fields["source"].fields["uri"]])],
         [doc EXCEPT !.externalParameters.fields["builderImage"].fields["uri"] =
             JString(<<"example.com/img:latest">>)],
         [doc EXCEPT !.externalParameters.fields["configPath"] = JArray(<<>>)]}

InitProv ==
    /\ LogIdle
    /\ BuildIdle
    /\ URIIdle
    /\ \E r \in ProvSourceRepos, d \in ProvDigests, i \in BuilderImages,
          cp \in ProvConfigPaths, c \in ProvCommands :
          provDb = [set |-> TRUE,
                    config |-> [SourceRepo |-> r, SourceDigest |-> d, BuilderImage |-> i,
                                BuildConfigPath |-> cp],
                    buildConfig |-> [Command |-> c, ArtifactPath |-> <<"dist/*">>],
                    RepoInfo |-> "checkoutInfo"]
    /\ provBytes = <<>>
    /\ provTampered = FALSE
    /\ provStmt = <<>>
    /\ provForce = FALSE
    /\ provCfg = <<>>
    /\ provPc = "start"

\* The build definition of provDb is written into a statement, which reaches
\* the parser as written or not.
WriteStatement ==
    /\ provPc = "start"
    /\ LET doc == SerializeStatement(CreateBuildDefinition(provDb))
       IN  \/ provBytes' = doc /\ provTampered' = FALSE
           \/ provBytes' \in Tampered(doc) /\ provTampered' = TRUE
    /\ provPc' = "serialized"
    /\ UNCHANGED <<provDb, provStmt, provForce, provCfg, lvars, bvars, uvars>>

ParseStatement ==
    /\ provPc = "serialized"
    /\ provStmt' = ParseProvenance(provBytes)
    /\ provPc' = "parsed"
    /\ UNCHANGED <<provDb, provBytes, provTampered, provForce, provCfg, lvars, bvars, uvars>>

RebuildConfig ==
    /\ provPc = "parsed"
    /\ provStmt.err = NoErr
    /\ \E forceCheckout \in BOOLEAN :
          /\ provForce' = forceCheckout
          /\ provCfg' = ToDockerBuildConfig(provStmt, forceCheckout)
    /\ provPc' = "rebuilt"
    /\ UNCHANGED <<provDb, provBytes, provTampered, provStmt, lvars, bvars, uvars>>

NextProv ==
    \/ WriteStatement
    \/ ParseStatement
    \/ RebuildConfig

SpecProv == InitProv /\ [][NextProv]_vars

\* ------------------------------------------------- claims on log capture

\* Every stream can be read to its end: no line stops the scanner early.
StreamsReachEnd == \A s \in Readers : TooLong \notin Range(src[s])

SaveReturned == mpc = "returned"

\* C1: log capture on two streams that reach end-of-stream terminates under
\* every interleaving of the drain tasks, the coordinating task, the caller
\* and the child, verbose or not; and when it has returned without an error
\* the temp file of each stream holds that stream's lines, all of them, in
\* the order they were written.
C1_CaptureTerminatesComplete ==
    /\ (callerPc = "saving" /\ StreamsReachEnd) ~> SaveReturned
    /\ [](SaveReturned /\ saveErr = "none" /\ StreamsReachEnd
            => \A s \in Readers : /\ fileOf[s] \in FileIds
                                  /\ disk[fileOf[s]] = src[s])

\* A verbose capture of two full streams has returned, both files complete.
C1_Witness ==
    /\ SaveReturned /\ saveErr = "none" /\ StreamsReachEnd /\ verbose
    /\ Len(src[1]) = MaxLines /\ Len(src[2]) = 1
    /\ src[1][1] # src[1][2]
    /\ \A s \in Readers : fileOf[s] \in FileIds /\ disk[fileOf[s]] = src[s]
    /\ Len(console) = MaxLines + 1

\* C8: the paths are returned in reader order: files[1] is the file of
\* reader 1 (stdout) and files[2] the file of reader 2 (stderr).
C8_FilesInReaderOrder ==
    SaveReturned /\ saveErr = "none"
        => files = <<fileOf[1], fileOf[2]>>

\* C9: the caller reaches cmd.Wait only when both streams have been read to
\* end-of-stream by their drain tasks.
C9_WaitOnlyAfterDrained ==
    callerPc = "wait"
        => \A s \in Readers : scanEnd[s] = "eof" /\ pipe[s] = <<>>

\* Every drain goroutine has sent its result and returned.
AllDrainsDone == wg = 0 /\ \A s \in Readers : dpc[s] = "done"

\* C16: the live-output channel and the result channel are closed only after
\* every drain goroutine has finished, so that none is left to send on a
\* closed channel, and the caller's loop over the live output ends only after
\* all of them are done.
C16_CloseAfterProducers ==
    /\ cpc \in {"closePrint", "closeFile", "done"} => AllDrainsDone
    /\ printClosed => AllDrainsDone
    /\ fileClosed => printClosed /\ AllDrainsDone
    /\ mpc \in {"rangeFile", "returned"} => printClosed /\ AllDrainsDone

\* A verbose capture printed lines of both streams and was closed down.
C16_Witness ==
    /\ verbose /\ printClosed /\ fileClosed /\ mpc = "returned"
    /\ AllDrainsDone
    /\ Len(console) = MaxLines + 1
    /\ "c" \in Range(console) /\ "a" \in Range(console)

\* C20: every process that was started is reaped: when the function that
\* started it returns, after cmd.Wait or with the error of the log capture,
\* cmd.Wait has been called on it.
C20_StartedProcessReaped ==
    callerPc \in {"saveFailed", "done"} => childPc = "reaped"

\* What the scanner loop accumulates of a stream: its lines up to the first
\* that scanner.Scan does not return.
RECURSIVE Captured(_)
Captured(q) ==
    IF q = <<>> \/ Head(q) = TooLong THEN <<>>
    ELSE <<Head(q)>> \o Captured(Tail(q))

\* C24: verbose changes the live display only. With verbose off no goroutine
\* sends on printChannel and nothing is printed; and, verbose on or off alike,
\* what each temp file holds is fixed by its stream's contents, each reader's
\* result by whether os.CreateTemp and Write succeeded for it, and
\* saveToTempFile's outcome by those results: all files named when every
\* reader succeeded, otherwise the error of a reader that failed.
C24_VerboseOnlyDisplay ==
    /\ ~verbose => /\ console = <<>>
                   /\ \A s \in Readers : dpc[s] # "print"
    /\ \A s \in Readers :
          dpc[s] \in {"send", "done"} =>
             /\ res[s].Err \in {"none", "createTemp", "write"}
             /\ res[s].Err = "createTemp" <=> fileOf[s] = 0
             /\ res[s].Err = "none" =>
                    /\ res[s].File = fileOf[s]
                    /\ disk[fileOf[s]] = Captured(src[s])
    /\ mpc = "returned" =>
          /\ \A s \in Readers : dpc[s] = "done"
          /\ saveErr = "none" <=> \A s \in Readers : res[s].Err = "none"
          /\ saveErr = "none" =>
                /\ Len(files) = NumReaders
                /\ Range(files) = {fileOf[s] : s \in Readers}
          /\ saveErr # "none" =>
                /\ files = <<>>
                /\ \E s \in Readers : res[s].Err = saveErr

\* saveToTempFile returned with verbose off: two lines of stdout and one of
\* stderr are in the temp files, and nothing was printed.
C24_Witness ==
    /\ ~verbose /\ mpc = "returned" /\ saveErr = "none"
    /\ src[1] = <<"a", "b">> /\ src[2] = <<"c">>
    /\ disk[fileOf[1]] = <<"a", "b">> /\ disk[fileOf[2]] = <<"c">>
    /\ console = <<>>

\* --------------------------------------- claims on the build-state machine

\* The step is a call of GitClient.Fetch.
FetchStep == ops' = ops + 1 /\ last'.op = "Fetch"

\* The operation invoked neither git clone nor git checkout.
NoCloneOrCheckout(cmds) ==
    "git clone" \notin Range(cmds) /\ "git checkout" \notin Range(cmds)

\* The working directory is a checkout whose HEAD, and whose source ref when
\* one is given, resolve to the requested digest value.
AtRequestedCommit ==
    /\ fs[cwd].head = cfg.Value
    /\ cfg.HasRef => fs[cwd].ref = cfg.Value

\* C2: a container is invoked only after a Fetch that succeeded, and whenever
\* Fetch succeeds (alone or as SetUpBuildState's first step) the current
\* working directory is a git checkout whose HEAD, and the source ref when one
\* is given, resolve to the requested sha1 digest value.
C2_BuildOnlyOnVerifiedSource ==
    /\ dockerRuns > 0 => fetched
    /\ db # NoBuild => fetched
    /\ (last.op \in {"Fetch", "SetUpBuildState"} /\ last.err = NoErr)
           => cfg.Alg = "sha1" /\ AtRequestedCommit

\* A container ran in a fresh checkout that was verified, ref included.
C2_Witness ==
    /\ last.op = "BuildArtifacts" /\ dockerRuns = 1 /\ fetched
    /\ cwd = RepoDir(1) /\ cfg.HasRef /\ AtRequestedCommit

\* C3: when the artifact pattern matches at least one file in the working
\* directory, SetUpBuildState fails, returns no DockerBuild and invokes no
\* container; the failure is the pre-flight check's error unless the fetch or
\* the loading of the config file (a malformed pattern included) failed first.
C3_PreexistingArtifactsFailSetUp ==
    (last.op = "SetUpBuildState" /\ fs[cwd].arts >= 1)
        => /\ last.err # NoErr
           /\ last.ret = NoBuild
           /\ "docker run" \notin Range(last.cmds)
           /\ last.err[1] \notin {"couldn't verify or fetch source repo",
                                  "couldn't load config file",
                                  "the pattern is malformed"}
                => last.err = <<"the specified pattern matches existing files; expected no matches">>

\* SetUpBuildState cloned a repository that holds a matching file and refused it.
C3_Witness ==
    /\ last.op = "SetUpBuildState" /\ fs[cwd].arts >= 1 /\ cwd = RepoDir(1)
    /\ last.err = <<"the specified pattern matches existing files; expected no matches">>
    /\ db = NoBuild /\ dockerRuns = 0

\* The container command of the last BuildArtifacts ran and succeeded.
DockerSucceeded ==
    /\ last.op = "BuildArtifacts"
    /\ "docker run" \in Range(last.cmds)
    /\ last.err = NoErr \/ last.err[1] # "running docker run failed"

\* C4: when the pattern matches no file after a build whose container command
\* succeeded, BuildArtifacts fails with the no-artifacts error and returns no
\* artifact descriptor.
C4_NoArtifactsIsAnError ==
    (DockerSucceeded /\ fs[cwd].arts = 0)
        => /\ last.err = <<"no files matching the pattern">>
           /\ last.subjects = 0

\* A build ran to the end and left nothing that matches.
C4_Witness ==
    /\ DockerSucceeded /\ fs[cwd].arts = 0 /\ dockerRuns = 1
    /\ last.err = <<"no files matching the pattern">>

\* Fetch found the directory already at the requested commit, without a ref.
AlreadyAtCommit ==
    /\ cfg.Alg = "sha1"
    /\ ~cfg.HasRef
    /\ fs[cwd].head = cfg.Value

\* Fetch verified in place: no clone, no checkout, the working directory kept,
\* and the client's checkout info returned as it was: with an empty RepoRoot,
\* which stands for the current directory, when no fresh fetch populated it.
VerifiedInPlace ==
    /\ last'.err = NoErr
    /\ NoCloneOrCheckout(last'.cmds)
    /\ cwd' = cwd
    /\ checkoutInfo' = checkoutInfo
    /\ tmpCount = 0 => checkoutInfo'.RepoRoot = NoRoot

\* C5 as stated: in a directory already checked out at commit H, with no ref
\* and the requested digest H, Fetch invokes no clone or checkout and returns
\* a checkout info pointing at the current directory.
C5_NoFetchWhenAtCommit ==
    [][(FetchStep /\ AlreadyAtCommit) => VerifiedInPlace]_vars

\* C5, amended: the same, with force-checkout unset.
C5_NoFetchWhenAtCommitUnforced ==
    [][(FetchStep /\ AlreadyAtCommit /\ ~cfg.ForceCheckout) => VerifiedInPlace]_vars

\* A first Fetch verified the directory the process started in.
C5_Witness ==
    /\ last.op = "Fetch" /\ last.err = NoErr /\ ops = 1
    /\ cfg.Alg = "sha1" /\ ~cfg.HasRef /\ ~cfg.ForceCheckout
    /\ cwd = 0 /\ fs[0].head = cfg.Value
    /\ last.cmds = <<"git rev-parse">>
    /\ checkoutInfo.RepoRoot = NoRoot

\* C6: in a directory checked out at a commit other than the requested one,
\* with force-checkout unset, Fetch fails with the commit-mismatch error and
\* invokes neither clone nor checkout.
C6_MismatchFailsFetch ==
    [][(/\ FetchStep
        /\ cfg.Alg = "sha1"
        /\ ~cfg.ForceCheckout
        /\ fs[cwd].head \in Commits \ {cfg.Value})
        => /\ last'.err = <<errGitCommitMismatch>>
           /\ NoCloneOrCheckout(last'.cmds)
           /\ tmpCount' = tmpCount /\ cwd' = cwd]_vars

\* Fetch refused the directory the process started in, at the other commit.
C6_Witness ==
    /\ last.op = "Fetch" /\ last.err = <<errGitCommitMismatch>>
    /\ ~cfg.ForceCheckout /\ cwd = 0
    /\ fs[0].head \in Commits \ {cfg.Value}
    /\ last.cmds = <<"git rev-parse">>

\* The step ran fetchSourcesFromGitRepo: it made a temp directory, or failed
\* inside the fresh fetch.
FreshFetchRan ==
    \/ tmpCount' = tmpCount + 1
    \/ last'.err # NoErr /\ last'.err[1] = "couldn't fetch sources"

\* The inspection of the working directory, before the step.
NotACheckout == fs[cwd].head = NoCommit
CommitMismatch ==
    \/ fs[cwd].head \in Commits \ {cfg.Value}
    \/ fs[cwd].head = cfg.Value /\ cfg.HasRef /\ fs[cwd].ref \in Commits \ {cfg.Value}
\* HEAD is the requested commit and the source ref does not resolve.
NoMatchingCommitFound ==
    fs[cwd].head = cfg.Value /\ cfg.HasRef /\ fs[cwd].ref = NoCommit

\* C7: with force-checkout set, a commit mismatch in the directory found does
\* not fail Fetch but starts a fresh fetch; a fresh fetch runs exactly when the
\* directory is not a checkout, or force-checkout is set, or the inspection
\* found no commit for the ref (a mismatch without force-checkout having
\* failed the call before); a fresh fetch that succeeds has cloned into a new
\* temp directory and then checked out the requested commit there.
C7_FreshFetchExactlyWhen ==
    [][(FetchStep /\ cfg.Alg = "sha1")
        => /\ FreshFetchRan <=>
                (NotACheckout \/ cfg.ForceCheckout \/ NoMatchingCommitFound)
           /\ (cfg.ForceCheckout /\ CommitMismatch)
                => FreshFetchRan /\ last'.err # <<errGitCommitMismatch>>
           /\ (FreshFetchRan /\ last'.err = NoErr)
                => /\ tmpCount' = tmpCount + 1
                   /\ cwd' = RepoDir(tmpCount')
                   /\ checkoutInfo'.RepoRoot = cwd'
                   /\ \E i, j \in 1..Len(last'.cmds) :
                         /\ i < j
                         /\ last'.cmds[i] = "git clone"
                         /\ last'.cmds[j] = "git checkout"]_vars

\* With force-checkout, Fetch left a directory at the other commit for a
\* fresh clone at the requested one.
C7_Witness ==
    /\ last.op = "Fetch" /\ last.err = NoErr /\ cfg.ForceCheckout
    /\ fs[0].head \in Commits \ {cfg.Value}
    /\ cwd = RepoDir(1) /\ checkoutInfo.RepoRoot = RepoDir(1)
    /\ AtRequestedCommit

\* C19: when the source digest's algorithm is not sha1, Fetch fails with the
\* configuration error before anything else: no git command is run, no temp
\* directory is made, the working directory and the checkout info stay as
\* they were, whether force-checkout is set or not.
C19_DigestAlgorithmFirst ==
    [][(FetchStep /\ cfg.Alg # "sha1")
        => /\ last'.err = <<"git commit digest must be a sha1 digest">>
           /\ last'.cmds = <<>>
           /\ tmpCount' = tmpCount
           /\ cwd' = cwd
           /\ fs' = fs
           /\ checkoutInfo' = checkoutInfo
           /\ logFiles' = logFiles /\ errFiles' = errFiles]_vars

\* Fetch refused a sha256 digest although force-checkout was set.
C19_Witness ==
    /\ last.op = "Fetch" /\ cfg.Alg = "sha256" /\ cfg.ForceCheckout
    /\ last.err = <<"git commit digest must be a sha1 digest">>
    /\ last.cmds = <<>> /\ tmpCount = 0 /\ cwd = 0

\* How many times a command occurs among those an operation ran.
Count(cmds, c) == Cardinality({i \in 1..Len(cmds) : cmds[i] = c})

\* The step's fresh fetch got as far as git checkout in the cloned repository.
CheckedOutFresh ==
    /\ FreshFetchRan
    /\ cwd' = RepoDir(tmpCount')
    /\ "git checkout" \in Range(last'.cmds)

\* After the step the new checkout is not at the requested commit, or the
\* source ref does not resolve to it.
NewCheckoutWrong ==
    \/ fs'[cwd'].head # cfg.Value
    \/ cfg.HasRef /\ fs'[cwd'].ref # cfg.Value

\* The step's Fetch failed in the verification that follows git checkout.
VerificationAfterCheckoutFailed ==
    "failed to verify ref and commit" \in Range(last'.err)

\* C18: after a fresh checkout HEAD, and the ref when given, are verified
\* again in the new checkout, and a failure there, a command failing or a
\* mismatch, is fatal with force-checkout set or not: Fetch returns a checkout
\* error, the checkout info stays as it was (unpopulated after a first fetch),
\* and clone and checkout have each run once, without a second attempt.
C18_VerificationAfterCheckoutIsFatal ==
    [][FetchStep =>
        /\ (CheckedOutFresh /\ last'.err = NoErr)
              => /\ ~NewCheckoutWrong
                 /\ last'.cmds[Len(last'.cmds)] \in {"git rev-parse", "git show-ref"}
        /\ (CheckedOutFresh /\ NewCheckoutWrong) => last'.err # NoErr
        /\ VerificationAfterCheckoutFailed
              => /\ SubSeq(last'.err, 1, 4) =
                        <<"couldn't fetch sources", errGitCheckout,
                          "couldn't checkout the Git commit",
                          "failed to verify ref and commit">>
                 /\ checkoutInfo' = checkoutInfo
                 /\ tmpCount = 0 => checkoutInfo'.RepoRoot = NoRoot
                 /\ tmpCount' = tmpCount + 1
                 /\ Count(last'.cmds, "git clone") = 1
                 /\ Count(last'.cmds, "git checkout") = 1]_vars

\* With force-checkout set, the fresh checkout came out at another commit and
\* Fetch failed, leaving the checkout info unpopulated.
C18_Witness ==
    /\ last.op = "Fetch" /\ cfg.ForceCheckout
    /\ last.err = <<"couldn't fetch sources", errGitCheckout,
                    "couldn't checkout the Git commit",
                    "failed to verify ref and commit", errGitCommitMismatch>>
    /\ cwd = RepoDir(1) /\ fs[cwd].head \in Commits \ {cfg.Value}
    /\ checkoutInfo.RepoRoot = NoRoot

\* C17: once SetUpBuildState has returned a DockerBuild, no later operation
\* changes what it holds: its config, its build configuration, and the
\* RepoRoot of the checkout info that its RepoInfo points to. (db is the
\* DockerBuild returned last; every DockerBuild of a Builder points to the
\* one RepoCheckoutInfo of the Builder's GitClient.)
C17_BuildStateNeverMutated ==
    [][db # NoBuild
        => /\ cfg' = cfg
           /\ last'.ret = NoBuild => db' = db
           /\ checkoutInfo'.RepoRoot = checkoutInfo.RepoRoot]_vars

\* The step is a call of RepoCheckoutInfo.Cleanup.
CleanupStep == ops' = ops + 1 /\ last'.op = "Cleanup"

\* C15: Cleanup on a checkout info that was never populated removes nothing;
\* Cleanup is idempotent: what two calls can leave is what one call can
\* leave, and a call after the tree was removed changes nothing; it reports
\* no failure, a removal that fails included.
C15_CleanupIdempotent ==
    /\ [](\A w1 \in CleanupResults(World) :
             /\ CleanupResults(w1) \subseteq CleanupResults(World)
             /\ w1 \in CleanupResults(w1))
    /\ [][CleanupStep =>
            /\ last'.err = NoErr
            /\ checkoutInfo' = checkoutInfo /\ cwd' = cwd
            /\ diskLogs' = diskLogs /\ logFiles' = logFiles /\ errFiles' = errFiles
            /\ \A x \in Dirs : x # checkoutInfo.RepoRoot => fs'[x] = fs[x]
            /\ checkoutInfo.RepoRoot = NoRoot => fs' = fs
            /\ (checkoutInfo.RepoRoot # NoRoot /\ ~fs[checkoutInfo.RepoRoot].exists)
                  => fs' = fs]_vars

\* After one fresh fetch, Cleanup was called twice and the checkout is gone.
C15_Witness ==
    /\ last.op = "Cleanup" /\ ops = 3 /\ ~failed
    /\ cfg.ForceCheckout /\ tmpCount = 1 /\ db = NoBuild
    /\ diskLogs # {}
    /\ checkoutInfo.RepoRoot = RepoDir(1) /\ ~fs[RepoDir(1)].exists

\* The step is a call of RepoCheckoutInfo.Cleanup or GitClient.cleanupAllFiles.
RemovalStep == ops' = ops + 1 /\ last'.op \in {"Cleanup", "cleanupAllFiles"}

\* The roots of the clones that fetches have made so far.
FetchedRoots == {RepoDir(n) : n \in 1..tmpCount}

\* C21: Cleanup deletes only a directory the fetcher created. RepoRoot is
\* empty or the root of a clone made by a fetch, and it is set only by an
\* operation that cloned into a new temp directory, checked out and verified
\* the commit there; Cleanup and cleanupAllFiles leave every other directory
\* as it was, so after a Fetch that verified the working directory in place
\* they remove nothing, and the directory the process started in is never
\* removed.
C21_CleanupOnlyRemovesFetchedRoot ==
    /\ [](/\ checkoutInfo.RepoRoot \in {NoRoot} \cup FetchedRoots
          /\ fs[0].exists)
    /\ [][(checkoutInfo'.RepoRoot # checkoutInfo.RepoRoot
              => /\ "git clone" \in Range(last'.cmds)
                 /\ "git checkout" \in Range(last'.cmds)
                 /\ tmpCount' = tmpCount + 1
                 /\ checkoutInfo'.RepoRoot = RepoDir(tmpCount')
                 /\ fs'[RepoDir(tmpCount')].exists
                 /\ fs'[RepoDir(tmpCount')].head = cfg.Value
                 /\ ~fs[RepoDir(tmpCount')].exists)
           /\ (RemovalStep
              => /\ \A x \in Dirs \ FetchedRoots : fs'[x] = fs[x]
                 /\ tmpCount = 0 => fs' = fs)]_vars

\* The working directory was verified in place, Cleanup and cleanupAllFiles
\* were called, and the directory is as it was.
C21_Witness ==
    /\ ops = 3 /\ last.op = "cleanupAllFiles" /\ fetched /\ ~failed
    /\ tmpCount = 0 /\ cwd = 0 /\ checkoutInfo.RepoRoot = NoRoot
    /\ fs[0].exists /\ fs[0].head = cfg.Value

\* C22: after cleanupAllFiles, whether the fetches before it succeeded or
\* failed, no temp directory that fetchSourcesFromGitRepo created and no temp
\* log file that log capture created remains. (Read on runs without a
\* container invocation, whose logs are not the fetcher's.)
C22_FetchLeavesNothingBehind ==
    (last.op = "cleanupAllFiles" /\ dockerRuns = 0)
        => /\ \A n \in 1..tmpCount : ~fs[TmpDir(n)].exists
           /\ diskLogs = {}
           /\ ~strayLogs

\* C23: a Fetch that returns an error leaves the process's working directory
\* where it was; a Fetch moves it only when it fetched afresh and succeeded,
\* and then to the clone's root recorded in RepoRoot.
C23_FailedFetchKeepsWorkingDirectory ==
    [][FetchStep =>
          /\ last'.err # NoErr => cwd' = cwd
          /\ cwd' # cwd => /\ last'.err = NoErr
                           /\ "git clone" \in Range(last'.cmds)
                           /\ cwd' = checkoutInfo'.RepoRoot]_vars

\* C13: every failure of the container command in BuildArtifacts, on every
\* failing path of runDockerRun after the process was started, names the two
\* files that hold the captured stdout and stderr.
C13_ExecutionErrorNamesLogs ==
    (/\ last.op = "BuildArtifacts"
     /\ last.err # NoErr
     /\ "docker run" \in Range(last.cmds)
     /\ last.err[1] = "running docker run failed")
        => Len(last.refs) = 2

\* C12: the container invocation that BuildArtifacts issues is exactly run,
\* the volume flag mounting the current working directory at /workspace,
\* --workdir=/workspace, --rm, the builder image's URI with its digest, and
\* the declared command's elements, in their order and unchanged; nothing is
\* added, and the invocation is issued once.
C12_ContainerInvocation ==
    last.op = "BuildArtifacts" =>
        /\ last.args # <<>> <=> "docker run" \in Range(last.cmds)
        /\ Count(last.cmds, "docker run") <= 1
        /\ dockerRuns <= ops
        /\ last.args # <<>> =>
              last.args =
                  <<"run",
                    "--volume=" \o DirPath(cwd) \o ":/workspace",
                    "--workdir=/workspace",
                    "--rm",
                    cfg.BuilderImage.Name \o "@" \o cfg.BuilderImage.Digest.Alg
                        \o ":" \o cfg.BuilderImage.Digest.Value>>
                  \o db.buildConfig.Command

\* A build in a fresh checkout, with the second image and a two-word command.
C12_Witness ==
    /\ last.op = "BuildArtifacts" /\ last.err = NoErr /\ dockerRuns = 1
    /\ last.args = <<"run", "--volume=/tmp/release-1/repo:/workspace",
                     "--workdir=/workspace", "--rm",
                     "gcr.io/builder@sha256:ef01", "release", "make">>

\* ------------------------------------------- claims on the provenance round trip

\* C11: for every build definition d that CreateBuildDefinition produces,
\* parsing the statement serialized from d gives back external parameters
\* equal to d's: source, builderImage, configPath and config.
C11_RoundTrip ==
    (provPc \in {"parsed", "rebuilt"} /\ ~provTampered)
        => /\ provStmt.err = NoErr
           /\ provStmt.ExternalParameters =
                  CreateBuildDefinition(provDb).ExternalParameters

\* The external parameters of the statement parsed.
ParsedEP == provStmt.ExternalParameters
\* The image reference parsed names an image, whose digest the declared one
\* equals or not.
ImageReferenceValid == validateDockerImage(ParsedEP.BuilderImage.URI).err = NoErr
DeclaredDigestDiffers ==
    <<validateDockerImage(ParsedEP.BuilderImage.URI).image.Digest.Value>>
        # MapLookup(ParsedEP.BuilderImage.Digest,
                    validateDockerImage(ParsedEP.BuilderImage.URI).image.Digest.Alg)

\* C14: ToDockerBuildConfig fails with the invalid-image-digest error when the
\* builder image digest declared in the external parameters differs from the
\* digest in the image reference, and with the missing-source-digest error
\* when the source has no sha1 digest (and the image digest is right); only
\* when both checks pass does it return a configuration, and that one has the
\* source digest under sha1 and the force-checkout the caller passed.
C14_RebuiltConfigValidated ==
    provPc = "rebuilt" =>
        /\ (ImageReferenceValid /\ DeclaredDigestDiffers)
              => provCfg.err = <<"invalid Docker image digest">>
        /\ "sha1" \notin DOMAIN ParsedEP.Source.Digest
              => /\ provCfg.err # NoErr
                 /\ (ImageReferenceValid /\ ~DeclaredDigestDiffers)
                       => provCfg.err = <<"missing sha1 digest for source">>
        /\ provCfg.err = NoErr
              => /\ ImageReferenceValid /\ ~DeclaredDigestDiffers
                 /\ "sha1" \in DOMAIN ParsedEP.Source.Digest
                 /\ provCfg.SourceDigest =
                        [Alg |-> "sha1", Value |-> ParsedEP.Source.Digest["sha1"]]
                 /\ provCfg.ForceCheckout = provForce
                 /\ provCfg.SourceRepo = ParsedEP.Source.URI
                 /\ provCfg.BuildConfigPath = ParsedEP.ConfigPath

\* A statement whose declared image digest was changed was refused, and one
\* as written gave a configuration with the override passed.
C14_Witness ==
    /\ provPc = "rebuilt" /\ provTampered
    /\ ImageReferenceValid /\ DeclaredDigestDiffers
    /\ "sha1" \in DOMAIN ParsedEP.Source.Digest
    /\ provForce
    /\ provCfg.err = <<"invalid Docker image digest">>

\* ------------------------------------------------- claims on newGitClient

\* The part of a URI after its scheme and colon.
RestOf(raw) == urlParse(raw).rest
\* What newGitClient split off the locator as the source ref.
RefSuffix(c) == IF c.sourceRef = NilRef THEN <<>> ELSE <<"@">> \o c.sourceRef.val

\* C10: for every source URI with scheme git+https or https+git that
\* newGitClient accepts, the locator it builds has scheme https, and what
\* follows the scheme, the ref split off included, is the input's, byte for byte.
C10_SchemeNormalized ==
    (/\ client # NoClient
     /\ client.err = NoErr
     /\ urlParse(config.SourceRepo).Scheme \in {sGitHttps, sHttpsGit})
        => /\ urlParse(client.sourceRepo).Scheme = sHttps
           /\ RestOf(client.sourceRepo) \o RefSuffix(client) = RestOf(config.SourceRepo)

====
